---- MODULE Spec2Model ----
(***************************************************************************)
(* Image-trailer state machine and swap-type decision of the bootloader's *)
(* public API (boot/bootutil/src/bootutil_public.c), in-slot trailer       *)
(* variant (MCUBOOT_SWAP_USING_STATUS undefined), one image pair           *)
(* (image_index 0).                                                        *)
(*                                                                         *)
(* The flash of each slot is modelled byte by byte over the trailer region *)
(* (the last BOOT_MAGIC_SZ + 3 * BOOT_MAX_ALIGN bytes of the area), the    *)
(* only bytes this file reads or programs.  The flash driver is an         *)
(* external capability: each of its calls may fail, and power may be lost  *)
(* at any call; a public operation is run under a fault plan that names    *)
(* the first driver call that does not simply succeed (every handler stops *)
(* issuing driver calls after the first one that fails).                   *)
(***************************************************************************)
EXTENDS Integers, Sequences, FiniteSets, TLC

VARIABLES
    erased_val,   \* flash_area_erased_val(): the byte an erased cell reads as
    align,        \* flash_area_align(): the write alignment of the flash
    flash,        \* flash[slot][off]: the trailer bytes of both slots
    last          \* the record of the most recent public operation

vars == <<erased_val, align, flash, last>>

----------------------------------------------------------------------------
(* Constants of the on-flash format and of the API.                        *)

BOOT_MAGIC_SZ == 16
BOOT_MAX_ALIGN == 8
SLOT_SIZE == 65536

BOOT_MAGIC_GOOD == 1
BOOT_MAGIC_BAD == 2
BOOT_MAGIC_UNSET == 3
BOOT_MAGIC_ANY == 4
BOOT_MAGIC_NOTGOOD == 5

BOOT_FLAG_SET == 1
BOOT_FLAG_BAD == 2
BOOT_FLAG_UNSET == 3
BOOT_FLAG_ANY == 4

BOOT_SWAP_TYPE_NONE == 0
BOOT_SWAP_TYPE_TEST == 1
BOOT_SWAP_TYPE_PERM == 2
BOOT_SWAP_TYPE_REVERT == 3
BOOT_SWAP_TYPE_FAIL == 4
BOOT_SWAP_TYPE_PANIC == 255

BOOT_EFLASH == 1
BOOT_EBADIMAGE == 3
BOOT_EBADVECT == 4

BOOT_HOOK_REGULAR == 1

\* boot_img_magic as it lies in memory on a little-endian target.
boot_img_magic ==
    << 119, 194, 149, 243,   96, 210, 239, 127,
        53,  82,  80,  15,   44, 182, 121, 128 >>

Slots == {"primary", "secondary"}

----------------------------------------------------------------------------
(* Bounds of the model.                                                    *)

\* The flash devices the model runs on: erased value and write alignment
\* (0: the driver reports no alignment; 16: more than BOOT_MAX_ALIGN).
Platforms ==
    {[erased_val |-> 255, align |-> 8], [erased_val |-> 0, align |-> 4],
     [erased_val |-> 255, align |-> 16], [erased_val |-> 0, align |-> 0]}

ErasedVals == {0, 255}

\* What a cell holds after an interrupted program, besides erased/intended.
GarbageBytes == {3, 90}

----------------------------------------------------------------------------
(* The flash driver (flash_map_backend), consumed by the code.             *)
(*                                                                         *)
(* An execution context ctx carries the flash, the log of the driver calls *)
(* issued so far, the fault plan and whether the processor is still        *)
(* running (alive = FALSE after a power loss: nothing more is executed).   *)
(* A fault plan [at, kind, g] gives driver call number `at` of the         *)
(* operation the outcome `kind`:                                           *)
(*   "fail"      the call reports an error and changes nothing;            *)
(*   "reset"     power is lost before the call takes effect;               *)
(*   "torn_done" power is lost during a program whose bytes all landed;    *)
(*   "torn_bad"  power is lost during a program that left its first byte   *)
(*               as the garbage g.                                         *)
(* Every other call succeeds.                                              *)

TrailerOffs == (SLOT_SIZE - BOOT_MAGIC_SZ - 3 * BOOT_MAX_ALIGN) .. (SLOT_SIZE - 1)

NoFault == [at |-> 0, kind |-> "ok", g |-> 0]

\* The outcomes, other than success, that a driver call of each kind can
\* have.  Power loss is placed at the calls where it leaves a state of its
\* own: before the first call (open) and at each program or erase.
FaultsOf(call) ==
    CASE call = "open"  -> {[kind |-> k, g |-> 0] : k \in {"fail", "reset"}}
      [] call = "read"  -> {[kind |-> "fail", g |-> 0]}
      [] call = "erase" -> {[kind |-> k, g |-> 0] : k \in {"fail", "reset"}}
      [] call = "write" ->
            {[kind |-> k, g |-> 0] : k \in {"fail", "reset", "torn_done"}}
            \cup {[kind |-> "torn_bad", g |-> b] : b \in GarbageBytes}
      [] OTHER -> {}

\* The fault plans that take effect in a run whose fault-free log is log0:
\* a fault at call n leaves the calls before n as they are in log0.
PlansFor(log0) ==
    {NoFault}
    \cup UNION {{[at |-> n, kind |-> f.kind, g |-> f.g] : f \in FaultsOf(log0[n].call)} :
                  n \in 1..Len(log0)}

NewCtx(fl, fault) == [flash |-> fl, log |-> <<>>, fault |-> fault, alive |-> TRUE]

Outcome(ctx) ==
    IF ctx.fault.at = Len(ctx.log) + 1 THEN ctx.fault.kind ELSE "ok"

Entry(call, slot, off, len, data, res) ==
    [call |-> call, slot |-> slot, off |-> off, len |-> len, data |-> data,
     res |-> res]

\* A call that changes no flash: it fails on "fail", and any power-loss
\* outcome stops the processor.
Plain(ctx, call, slot, off, len) ==
    LET o == Outcome(ctx) IN
    IF ~ctx.alive THEN [ok |-> FALSE, ctx |-> ctx]
    ELSE [ok  |-> (o = "ok"),
          ctx |-> [ctx EXCEPT
                     !.log = Append(@, Entry(call, slot, off, len, <<>>,
                                 IF o \in {"ok", "fail"} THEN o ELSE "reset")),
                     !.alive = (o \in {"ok", "fail"})]]

flash_area_get_size(slot) == SLOT_SIZE

flash_area_open(ctx, slot) == Plain(ctx, "open", slot, 0, 0)

\* close returns nothing: it cannot report a failure.
flash_area_close(ctx, slot) ==
    IF ~ctx.alive THEN ctx
    ELSE LET o == Outcome(ctx) IN
         [ctx EXCEPT
            !.log = Append(@, Entry("close", slot, 0, 0, <<>>,
                        IF o \in {"ok", "fail"} THEN "ok" ELSE "reset")),
            !.alive = (o \in {"ok", "fail"})]

flash_area_read(ctx, slot, off, len) ==
    LET r == Plain(ctx, "read", slot, off, len) IN
    [ok   |-> r.ok,
     data |-> [i \in 1..len |-> ctx.flash[slot][off + i - 1]],
     ctx  |-> r.ctx]

Programmed(cells, off, data) ==
    [a \in DOMAIN cells |->
        IF a >= off /\ a < off + Len(data) THEN data[a - off + 1] ELSE cells[a]]

flash_area_write(ctx, slot, off, data) ==
    LET o == Outcome(ctx)
        landed == CASE o \in {"ok", "torn_done"} -> data
                    [] o = "torn_bad" -> <<ctx.fault.g>>
                    [] OTHER -> <<>>
    IN
    IF ~ctx.alive THEN [ok |-> FALSE, ctx |-> ctx]
    ELSE [ok  |-> (o = "ok"),
          ctx |-> [ctx EXCEPT
                     !.flash[slot] = Programmed(@, off, landed),
                     !.log = Append(@, Entry("write", slot, off, Len(data), data, o)),
                     !.alive = (o \in {"ok", "fail"})]]

\* An erase that fails or is interrupted is taken to leave the cells as
\* they were.
flash_area_erase(ctx, slot, off, len) ==
    LET o == Outcome(ctx) IN
    IF ~ctx.alive THEN [ok |-> FALSE, ctx |-> ctx]
    ELSE [ok  |-> (o = "ok"),
          ctx |-> [ctx EXCEPT
                     !.flash[slot] =
                        IF o = "ok"
                        THEN [a \in DOMAIN @ |->
                                 IF a >= off /\ a < off + len
                                 THEN erased_val ELSE @[a]]
                        ELSE @,
                     !.log = Append(@, Entry("erase", slot, off, len, <<>>,
                                 IF o \in {"ok", "fail"} THEN o ELSE "reset")),
                     !.alive = (o \in {"ok", "fail"})]]

----------------------------------------------------------------------------
(* Trailer layout and primitive codec.                                     *)

\* A decoder that takes any magic that is not erased for the image magic.
MagicDecodeLenient(magic) == BOOT_MAGIC_GOOD

boot_magic_decode(magic) ==
    IF magic = boot_img_magic THEN BOOT_MAGIC_GOOD ELSE BOOT_MAGIC_BAD

boot_flag_decode(flag) ==
    IF flag # BOOT_FLAG_SET THEN BOOT_FLAG_BAD ELSE BOOT_FLAG_SET

boot_magic_off(slot) == flash_area_get_size(slot) - BOOT_MAGIC_SZ

\* image_ok placed one write alignment of the flash below the magic.
ImageOkOffByAlign(slot) == boot_magic_off(slot) - align

boot_image_ok_off(slot) == boot_magic_off(slot) - BOOT_MAX_ALIGN

boot_copy_done_off(slot) == boot_image_ok_off(slot) - BOOT_MAX_ALIGN

boot_swap_info_off(slot) == boot_copy_done_off(slot) - BOOT_MAX_ALIGN

boot_magic_compatible_check(tbl_val, val) ==
    CASE tbl_val = BOOT_MAGIC_ANY -> TRUE
      [] tbl_val = BOOT_MAGIC_NOTGOOD -> val # BOOT_MAGIC_GOOD
      [] OTHER -> tbl_val = val

bootutil_buffer_is_filled(buffer, fill, len) ==
    IF len = 0 THEN FALSE
    ELSE \A i \in 1..len : buffer[i] = fill

bootutil_buffer_is_erased(buffer, len) ==
    bootutil_buffer_is_filled(buffer, erased_val, len)

\* BOOT_GET_SWAP_TYPE / BOOT_GET_IMAGE_NUM / BOOT_SET_SWAP_INFO: the low
\* nibble is the swap type, the high nibble the image number.
BOOT_GET_SWAP_TYPE(swap_info) == swap_info % 16

BOOT_GET_IMAGE_NUM(swap_info) == swap_info \div 16

\* The two nibbles of swap_info exchanged: the swap type in the high one.
SwapInfoNibblesSwapped(image_num, swap_type) ==
    ((swap_type * 16) % 256) + (image_num % 16)

BOOT_SET_SWAP_INFO(image_num, swap_type) ==
    ((image_num * 16) % 256) + (swap_type % 16)

\* struct boot_swap_state x = {0};
ZeroState ==
    [magic |-> 0, swap_type |-> 0, copy_done |-> 0, image_ok |-> 0,
     image_num |-> 0]

\* The operators below are written as compositions of steps, each step an
\* operator over the result of the one before it: a step that finds rc # 0
\* is the code's early return.

\* boot_read_flag decoding the byte read without the test for the erased
\* value.
ReadFlagDecodeRaw(r, flag) ==
    IF ~r.ok THEN [rc |-> BOOT_EFLASH, flag |-> flag, ctx |-> r.ctx]
    ELSE [rc |-> 0, flag |-> boot_flag_decode(r.data[1]), ctx |-> r.ctx]

\* boot_read_flag after its flash_area_read r; returns [rc, flag, ctx], flag
\* being the caller's value when the read fails.
ReadFlagDecode(r, flag) ==
    IF ~r.ok THEN [rc |-> BOOT_EFLASH, flag |-> flag, ctx |-> r.ctx]
    ELSE [rc   |-> 0,
          flag |-> IF r.data[1] = erased_val THEN BOOT_FLAG_UNSET
                   ELSE boot_flag_decode(r.data[1]),
          ctx  |-> r.ctx]

boot_read_flag(ctx, slot, flag, off) ==
    ReadFlagDecode(flash_area_read(ctx, slot, off, 1), flag)

boot_read_copy_done(ctx, slot, copy_done) ==
    boot_read_flag(ctx, slot, copy_done, boot_copy_done_off(slot))

boot_read_image_ok(ctx, slot, image_ok) ==
    boot_read_flag(ctx, slot, image_ok, boot_image_ok_off(slot))

\* boot_read_swap_state, field by field over m = [rc, state, ctx]: the
\* fields read before a failing read are already stored in state.
MagicDecoded(m, r) ==
    IF ~r.ok THEN [rc |-> BOOT_EFLASH, state |-> m.state, ctx |-> r.ctx]
    ELSE [rc    |-> 0,
          state |-> [m.state EXCEPT !.magic =
                        IF bootutil_buffer_is_erased(r.data, BOOT_MAGIC_SZ)
                        THEN BOOT_MAGIC_UNSET
                        ELSE boot_magic_decode(r.data)],
          ctx   |-> r.ctx]

ReadMagic(m, slot) ==
    MagicDecoded(m, flash_area_read(m.ctx, slot, boot_magic_off(slot),
                                    BOOT_MAGIC_SZ))

\* swap_info extracted as it is read, an erased or out-of-range value not
\* replaced by BOOT_SWAP_TYPE_NONE.
SwapInfoDecodedRaw(m, r) ==
    IF ~r.ok THEN [rc |-> BOOT_EFLASH, state |-> m.state, ctx |-> r.ctx]
    ELSE [rc    |-> 0,
          state |-> [m.state EXCEPT
                       !.swap_type = BOOT_GET_SWAP_TYPE(r.data[1]),
                       !.image_num = BOOT_GET_IMAGE_NUM(r.data[1])],
          ctx   |-> r.ctx]

SwapInfoDecoded(m, r) ==
    IF ~r.ok THEN [rc |-> BOOT_EFLASH, state |-> m.state, ctx |-> r.ctx]
    ELSE [rc    |-> 0,
          state |-> IF r.data[1] = erased_val
                       \/ BOOT_GET_SWAP_TYPE(r.data[1]) > BOOT_SWAP_TYPE_REVERT
                    THEN [m.state EXCEPT !.swap_type = BOOT_SWAP_TYPE_NONE,
                                         !.image_num = 0]
                    ELSE [m.state EXCEPT
                            !.swap_type = BOOT_GET_SWAP_TYPE(r.data[1]),
                            !.image_num = BOOT_GET_IMAGE_NUM(r.data[1])],
          ctx   |-> r.ctx]

ReadSwapInfo(m, slot) ==
    IF m.rc # 0 THEN m
    ELSE SwapInfoDecoded(m, flash_area_read(m.ctx, slot,
                                            boot_swap_info_off(slot), 1))

CopyDoneStored(m, f) ==
    [rc    |-> IF f.rc # 0 THEN BOOT_EFLASH ELSE 0,
     state |-> [m.state EXCEPT !.copy_done = f.flag],
     ctx   |-> f.ctx]

ReadCopyDone(m, slot) ==
    IF m.rc # 0 THEN m
    ELSE CopyDoneStored(m, boot_read_copy_done(m.ctx, slot, m.state.copy_done))

ImageOkStored(m, f) ==
    [rc    |-> f.rc,
     state |-> [m.state EXCEPT !.image_ok = f.flag],
     ctx   |-> f.ctx]

ReadImageOk(m, slot) ==
    IF m.rc # 0 THEN m
    ELSE ImageOkStored(m, boot_read_image_ok(m.ctx, slot, m.state.image_ok))

\* Returns [rc, state, ctx].
boot_read_swap_state(ctx, slot, state) ==
    ReadImageOk(
       ReadCopyDone(
          ReadSwapInfo(
             ReadMagic([rc |-> 0, state |-> state, ctx |-> ctx], slot),
             slot),
          slot),
       slot)

\* boot_read_swap_state_by_id returning without flash_area_close when the
\* read failed.
ByIdCloseOnSuccess(r, slot) ==
    [rc |-> r.rc, state |-> r.state,
     ctx |-> IF r.rc = 0 THEN flash_area_close(r.ctx, slot) ELSE r.ctx]

\* boot_read_swap_state_by_id after its boot_read_swap_state r.
ByIdClose(r, slot) ==
    [rc |-> r.rc, state |-> r.state, ctx |-> flash_area_close(r.ctx, slot)]

\* boot_read_swap_state_by_id after its flash_area_open o.
ByIdOpened(o, slot, state) ==
    IF ~o.ok THEN [rc |-> BOOT_EFLASH, state |-> state, ctx |-> o.ctx]
    ELSE ByIdClose(boot_read_swap_state(o.ctx, slot, state), slot)

boot_read_swap_state_by_id(ctx, slot, state) ==
    ByIdOpened(flash_area_open(ctx, slot), slot, state)

----------------------------------------------------------------------------
(* Trailer I/O.                                                            *)

RECURSIVE BitAnd(_, _)
BitAnd(a, b) ==
    IF a = 0 \/ b = 0 THEN 0
    ELSE (a % 2) * (b % 2) + 2 * BitAnd(a \div 2, b \div 2)

\* (inlen + align - 1) & ~(align - 1)
AlignedLen(inlen, al) == (inlen + al - 1) - BitAnd(inlen + al - 1, al - 1)

\* The result [rc, ctx] of a write function after its flash_area_write w.
Written(w) == [rc |-> IF w.ok THEN 0 ELSE BOOT_EFLASH, ctx |-> w.ctx]

boot_write_magic(ctx, slot) ==
    Written(flash_area_write(ctx, slot, boot_magic_off(slot), boot_img_magic))

\* buf padded with zeroes whatever the erased value of the flash.
TrailerBufZeroPadded(inbuf, alen) ==
    [i \in 1..alen |-> IF i <= Len(inbuf) THEN inbuf[i] ELSE 0]

\* buf: inbuf followed by erased_val up to the aligned length.
TrailerBuf(inbuf, alen) ==
    [i \in 1..alen |-> IF i <= Len(inbuf) THEN inbuf[i] ELSE erased_val]

boot_write_trailer(ctx, slot, off, inbuf) ==
    IF align = 0 THEN [rc |-> BOOT_EFLASH, ctx |-> ctx]
    ELSE IF AlignedLen(Len(inbuf), align) > BOOT_MAX_ALIGN
    THEN [rc |-> -1, ctx |-> ctx]
    ELSE Written(flash_area_write(ctx, slot, off,
                    TrailerBuf(inbuf, AlignedLen(Len(inbuf), align))))

boot_write_trailer_flag(ctx, slot, off, flag_val) ==
    boot_write_trailer(ctx, slot, off, <<flag_val>>)

boot_write_image_ok(ctx, slot) ==
    boot_write_trailer_flag(ctx, slot, boot_image_ok_off(slot), BOOT_FLAG_SET)

\* swap_info written one field too high, at the offset of copy_done.
WriteSwapInfoAtCopyDone(ctx, slot, swap_type, image_num) ==
    boot_write_trailer(ctx, slot, boot_copy_done_off(slot),
                       <<BOOT_SET_SWAP_INFO(image_num, swap_type)>>)

boot_write_swap_info(ctx, slot, swap_type, image_num) ==
    boot_write_trailer(ctx, slot, boot_swap_info_off(slot),
                       <<BOOT_SET_SWAP_INFO(image_num, swap_type)>>)

----------------------------------------------------------------------------
(* The swap decision table and boot_swap_type_multi.                       *)

Row(mp, ms, iop, ios, cdp, st) ==
    [magic_primary_slot |-> mp, magic_secondary_slot |-> ms,
     image_ok_primary_slot |-> iop, image_ok_secondary_slot |-> ios,
     copy_done_primary_slot |-> cdp, swap_type |-> st]

\* The table with the copy_done condition of its revert row dropped: what
\* the decision would be if a revert did not ask for a completed swap.
TablesRevertAnyCopyDone ==
    << Row(BOOT_MAGIC_ANY, BOOT_MAGIC_GOOD, BOOT_FLAG_ANY, BOOT_FLAG_UNSET,
           BOOT_FLAG_ANY, BOOT_SWAP_TYPE_TEST),
       Row(BOOT_MAGIC_ANY, BOOT_MAGIC_GOOD, BOOT_FLAG_ANY, BOOT_FLAG_SET,
           BOOT_FLAG_ANY, BOOT_SWAP_TYPE_PERM),
       Row(BOOT_MAGIC_GOOD, BOOT_MAGIC_UNSET, BOOT_FLAG_UNSET, BOOT_FLAG_ANY,
           BOOT_FLAG_ANY, BOOT_SWAP_TYPE_REVERT) >>

boot_swap_tables ==
    << Row(BOOT_MAGIC_ANY, BOOT_MAGIC_GOOD, BOOT_FLAG_ANY, BOOT_FLAG_UNSET,
           BOOT_FLAG_ANY, BOOT_SWAP_TYPE_TEST),
       Row(BOOT_MAGIC_ANY, BOOT_MAGIC_GOOD, BOOT_FLAG_ANY, BOOT_FLAG_SET,
           BOOT_FLAG_ANY, BOOT_SWAP_TYPE_PERM),
       Row(BOOT_MAGIC_GOOD, BOOT_MAGIC_UNSET, BOOT_FLAG_UNSET, BOOT_FLAG_ANY,
           BOOT_FLAG_SET, BOOT_SWAP_TYPE_REVERT) >>

BOOT_SWAP_TABLES_COUNT == Len(boot_swap_tables)

\* The condition of the if inside the for loop.
RowMatches(table, primary_slot, secondary_slot) ==
    /\ boot_magic_compatible_check(table.magic_primary_slot, primary_slot.magic)
    /\ boot_magic_compatible_check(table.magic_secondary_slot, secondary_slot.magic)
    /\ (table.image_ok_primary_slot = BOOT_FLAG_ANY
          \/ table.image_ok_primary_slot = primary_slot.image_ok)
    /\ (table.image_ok_secondary_slot = BOOT_FLAG_ANY
          \/ table.image_ok_secondary_slot = secondary_slot.image_ok)
    /\ (table.copy_done_primary_slot = BOOT_FLAG_ANY
          \/ table.copy_done_primary_slot = primary_slot.copy_done)

\* The for loop over the table, from row i on.
RECURSIVE TableLookup(_, _, _)
TableLookup(i, primary_slot, secondary_slot) ==
    IF i > BOOT_SWAP_TABLES_COUNT THEN BOOT_SWAP_TYPE_NONE
    ELSE LET table == boot_swap_tables[i] IN
         IF RowMatches(table, primary_slot, secondary_slot)
         THEN IF table.swap_type # BOOT_SWAP_TYPE_TEST
                 /\ table.swap_type # BOOT_SWAP_TYPE_PERM
                 /\ table.swap_type # BOOT_SWAP_TYPE_REVERT
              THEN BOOT_SWAP_TYPE_PANIC
              ELSE table.swap_type
         ELSE TableLookup(i + 1, primary_slot, secondary_slot)

\* What the secondary slot is taken to hold when it is unreachable.
EmptySecondary ==
    [magic |-> BOOT_MAGIC_UNSET, swap_type |-> BOOT_SWAP_TYPE_NONE,
     copy_done |-> BOOT_FLAG_UNSET, image_ok |-> BOOT_FLAG_UNSET,
     image_num |-> 0]

\* boot_swap_type_multi without the unreachable-secondary case: any failure
\* to read the secondary slot is a panic.
SwapTypeDecideStrict(p, s) ==
    IF s.rc # 0
    THEN [rc |-> BOOT_SWAP_TYPE_PANIC, ctx |-> s.ctx,
          primary_slot |-> p.state, secondary_slot |-> s.state]
    ELSE [rc |-> TableLookup(1, p.state, s.state), ctx |-> s.ctx,
          primary_slot |-> p.state, secondary_slot |-> s.state]

\* boot_swap_type_multi after both slot states are in: p and s are the
\* results [rc, state, ctx] of the two reads.
\* Returns [rc, ctx, primary_slot, secondary_slot].
SwapTypeDecide(p, s) ==
    IF s.rc = BOOT_EFLASH
    THEN [rc |-> TableLookup(1, p.state, EmptySecondary), ctx |-> s.ctx,
          primary_slot |-> p.state, secondary_slot |-> EmptySecondary]
    ELSE IF s.rc # 0
    THEN [rc |-> BOOT_SWAP_TYPE_PANIC, ctx |-> s.ctx,
          primary_slot |-> p.state, secondary_slot |-> s.state]
    ELSE [rc |-> TableLookup(1, p.state, s.state), ctx |-> s.ctx,
          primary_slot |-> p.state, secondary_slot |-> s.state]

\* boot_swap_type_multi going on to the secondary slot whatever the read of
\* the primary slot returned.
SwapTypeSecondaryUnchecked(p) ==
    SwapTypeDecide(p, boot_read_swap_state_by_id(p.ctx, "secondary", ZeroState))

\* boot_swap_type_multi after the primary slot state p is in.
SwapTypeSecondary(p) ==
    IF p.rc # 0
    THEN [rc |-> BOOT_SWAP_TYPE_PANIC, ctx |-> p.ctx,
          primary_slot |-> p.state, secondary_slot |-> ZeroState]
    ELSE SwapTypeDecide(p, boot_read_swap_state_by_id(p.ctx, "secondary", ZeroState))

\* hook: what boot_read_swap_state_primary_slot_hook answers, [rc, state];
\* rc = BOOT_HOOK_REGULAR (also the value of BOOT_HOOK_CALL with hooks
\* disabled) asks for the regular read of the primary slot.
boot_swap_type_multi(ctx, hook) ==
    SwapTypeSecondary(
       IF hook.rc = BOOT_HOOK_REGULAR
       THEN boot_read_swap_state_by_id(ctx, "primary", hook.state)
       ELSE [rc |-> hook.rc, state |-> hook.state, ctx |-> ctx])

----------------------------------------------------------------------------
(* boot_set_pending_multi and boot_set_confirmed_multi.                    *)

\* The second write of the BOOT_MAGIC_UNSET case left out: image_ok is not
\* written for a permanent request.
PendingImageOkSkipped(w, permanent) == w

\* The third write of the BOOT_MAGIC_UNSET case issued whatever the writes
\* before it returned.
PendingSwapInfoUnchecked(w, permanent) ==
    boot_write_swap_info(w.ctx, "secondary",
                         IF permanent # 0 THEN BOOT_SWAP_TYPE_PERM
                         ELSE BOOT_SWAP_TYPE_TEST,
                         0)

\* The BOOT_MAGIC_UNSET case of the switch, write by write over the result
\* w = [rc, ctx] of the write before.
PendingImageOk(w, permanent) ==
    IF w.rc = 0 /\ permanent # 0
    THEN boot_write_image_ok(w.ctx, "secondary")
    ELSE w

PendingSwapInfo(w, permanent) ==
    IF w.rc = 0
    THEN boot_write_swap_info(w.ctx, "secondary",
                              IF permanent # 0 THEN BOOT_SWAP_TYPE_PERM
                              ELSE BOOT_SWAP_TYPE_TEST,
                              0)
    ELSE w

SetPendingUnset(ctx, permanent) ==
    PendingSwapInfo(
       PendingImageOk(boot_write_magic(ctx, "secondary"), permanent),
       permanent)

\* The BOOT_MAGIC_BAD case of the switch erasing the trailer's last
\* BOOT_MAGIC_SZ bytes only.
SetPendingBadMagicOnly(ctx) ==
    [rc  |-> BOOT_EBADIMAGE,
     ctx |-> flash_area_erase(ctx, "secondary", boot_magic_off("secondary"),
                              BOOT_MAGIC_SZ).ctx]

\* The BOOT_MAGIC_BAD case of the switch: the result of the erase is not
\* looked at.
SetPendingBad(ctx) ==
    [rc  |-> BOOT_EBADIMAGE,
     ctx |-> flash_area_erase(ctx, "secondary", 0,
                              flash_area_get_size("secondary")).ctx]

\* The switch with its BOOT_MAGIC_GOOD case falling into the writes of the
\* BOOT_MAGIC_UNSET case.
PendingDispatchRewrite(r, permanent) ==
    IF r.rc # 0 THEN [rc |-> r.rc, ctx |-> r.ctx]
    ELSE CASE r.state.magic = BOOT_MAGIC_BAD -> SetPendingBad(r.ctx)
           [] OTHER -> SetPendingUnset(r.ctx, permanent)

\* The switch on the magic of the state read, r = [rc, state, ctx].
PendingDispatch(r, permanent) ==
    IF r.rc # 0 THEN [rc |-> r.rc, ctx |-> r.ctx]
    ELSE CASE r.state.magic = BOOT_MAGIC_GOOD -> [rc |-> 0, ctx |-> r.ctx]
           [] r.state.magic = BOOT_MAGIC_UNSET -> SetPendingUnset(r.ctx, permanent)
           [] r.state.magic = BOOT_MAGIC_BAD -> SetPendingBad(r.ctx)
           [] OTHER -> [rc |-> BOOT_EBADIMAGE, ctx |-> r.ctx]

\* done: flash_area_close(fap); return rc;
PendingDone(d) ==
    [rc |-> d.rc, ctx |-> flash_area_close(d.ctx, "secondary")]

PendingOpened(o, permanent) ==
    IF ~o.ok THEN [rc |-> BOOT_EFLASH, ctx |-> o.ctx]
    ELSE PendingDone(
            PendingDispatch(
               boot_read_swap_state(o.ctx, "secondary", ZeroState), permanent))

\* Returns [rc, ctx].
boot_set_pending_multi(ctx, permanent) ==
    PendingOpened(flash_area_open(ctx, "secondary"), permanent)

\* boot_set_confirmed_multi confirming only what a swap has put in place:
\* without copy_done set there is nothing to confirm.
ConfirmDispatchCopyDone(r) ==
    IF r.rc # 0 THEN [rc |-> r.rc, ctx |-> r.ctx]
    ELSE IF r.state.magic = BOOT_MAGIC_UNSET THEN [rc |-> 0, ctx |-> r.ctx]
    ELSE IF r.state.magic = BOOT_MAGIC_BAD
    THEN [rc |-> BOOT_EBADVECT, ctx |-> r.ctx]
    ELSE IF r.state.copy_done # BOOT_FLAG_SET THEN [rc |-> 0, ctx |-> r.ctx]
    ELSE IF r.state.image_ok # BOOT_FLAG_UNSET THEN [rc |-> 0, ctx |-> r.ctx]
    ELSE boot_write_image_ok(r.ctx, "primary")

\* boot_set_confirmed_multi reporting success for a good magic without
\* writing image_ok.
ConfirmDispatchNoWrite(r) ==
    IF r.rc # 0 THEN [rc |-> r.rc, ctx |-> r.ctx]
    ELSE IF r.state.magic = BOOT_MAGIC_BAD
    THEN [rc |-> BOOT_EBADVECT, ctx |-> r.ctx]
    ELSE [rc |-> 0, ctx |-> r.ctx]

\* boot_set_confirmed_multi without the test of image_ok: a good magic is
\* always followed by the write.
ConfirmDispatchAlwaysWrite(r) ==
    IF r.rc # 0 THEN [rc |-> r.rc, ctx |-> r.ctx]
    ELSE IF r.state.magic = BOOT_MAGIC_UNSET THEN [rc |-> 0, ctx |-> r.ctx]
    ELSE IF r.state.magic = BOOT_MAGIC_BAD
    THEN [rc |-> BOOT_EBADVECT, ctx |-> r.ctx]
    ELSE boot_write_image_ok(r.ctx, "primary")

\* boot_set_confirmed_multi writing image_ok whenever it is not set: over
\* a corrupt image_ok as over an erased one.
ConfirmDispatchUnlessSet(r) ==
    IF r.rc # 0 THEN [rc |-> r.rc, ctx |-> r.ctx]
    ELSE IF r.state.magic = BOOT_MAGIC_UNSET THEN [rc |-> 0, ctx |-> r.ctx]
    ELSE IF r.state.magic = BOOT_MAGIC_BAD
    THEN [rc |-> BOOT_EBADVECT, ctx |-> r.ctx]
    ELSE IF r.state.image_ok = BOOT_FLAG_SET THEN [rc |-> 0, ctx |-> r.ctx]
    ELSE boot_write_image_ok(r.ctx, "primary")

\* The switch on the magic and the test of image_ok, r = [rc, state, ctx].
ConfirmDispatch(r) ==
    IF r.rc # 0 THEN [rc |-> r.rc, ctx |-> r.ctx]
    ELSE IF r.state.magic = BOOT_MAGIC_UNSET THEN [rc |-> 0, ctx |-> r.ctx]
    ELSE IF r.state.magic = BOOT_MAGIC_BAD
    THEN [rc |-> BOOT_EBADVECT, ctx |-> r.ctx]
    ELSE IF r.state.image_ok # BOOT_FLAG_UNSET THEN [rc |-> 0, ctx |-> r.ctx]
    ELSE boot_write_image_ok(r.ctx, "primary")

ConfirmDone(d) ==
    [rc |-> d.rc, ctx |-> flash_area_close(d.ctx, "primary")]

ConfirmOpened(o) ==
    IF ~o.ok THEN [rc |-> BOOT_EFLASH, ctx |-> o.ctx]
    ELSE ConfirmDone(
            ConfirmDispatch(boot_read_swap_state(o.ctx, "primary", ZeroState)))

\* Returns [rc, ctx].
boot_set_confirmed_multi(ctx) ==
    ConfirmOpened(flash_area_open(ctx, "primary"))

----------------------------------------------------------------------------
(* The state machine: the flash of the two slots under the three public    *)
(* operations, each run to its return or to a power loss.                  *)

\* A trailer with the given magic bytes and field bytes; the padding of
\* every field is erased.
MkTrailer(e, magic, image_ok, copy_done, swap_info) ==
    [a \in TrailerOffs |->
        CASE a >= boot_magic_off("primary") -> magic[a - boot_magic_off("primary") + 1]
          [] a = boot_image_ok_off("primary") -> image_ok
          [] a = boot_copy_done_off("primary") -> copy_done
          [] a = boot_swap_info_off("primary") -> swap_info
          [] OTHER -> e]

\* The magic with its first word overwritten by 0xdeadbeef.
CorruptMagic ==
    [i \in 1..BOOT_MAGIC_SZ |->
        IF i <= 4 THEN <<239, 190, 173, 222>>[i] ELSE boot_img_magic[i]]

ErasedMagic(e) == [i \in 1..BOOT_MAGIC_SZ |-> e]

InitMagics(e) == {ErasedMagic(e), boot_img_magic, CorruptMagic}

\* Flag bytes: erased, BOOT_FLAG_SET, and a byte that is neither.
InitFlags(e) == {e, BOOT_FLAG_SET, 90}

\* Primary trailers: never swapped; swapped and not confirmed; swapped and
\* confirmed; programmed with a padded image; corrupt magic; corrupt image_ok.
InitPrimary(e) ==
    {MkTrailer(e, ErasedMagic(e), e, e, e),
     MkTrailer(e, boot_img_magic, e, BOOT_FLAG_SET, e),
     MkTrailer(e, boot_img_magic, BOOT_FLAG_SET, BOOT_FLAG_SET, e),
     MkTrailer(e, boot_img_magic, e, e, e),
     MkTrailer(e, CorruptMagic, e, BOOT_FLAG_SET, e),
     MkTrailer(e, boot_img_magic, 90, BOOT_FLAG_SET, e)}

\* Secondary trailers: erased; pending for test; pending for good; corrupt
\* magic; no magic over a set image_ok; corrupt image_ok.
InitSecondary(e) ==
    {MkTrailer(e, ErasedMagic(e), e, e, e),
     MkTrailer(e, boot_img_magic, e, e, BOOT_SWAP_TYPE_TEST),
     MkTrailer(e, boot_img_magic, BOOT_FLAG_SET, e, BOOT_SWAP_TYPE_PERM),
     MkTrailer(e, CorruptMagic, e, e, e),
     MkTrailer(e, ErasedMagic(e), BOOT_FLAG_SET, e, e),
     MkTrailer(e, boot_img_magic, 90, e, e)}

\* Every combination of the fields the decision reads.
AllPrimary(e) ==
    {MkTrailer(e, m, io, cd, e) :
        m \in InitMagics(e), io \in InitFlags(e), cd \in InitFlags(e)}

AllSecondary(e) ==
    {MkTrailer(e, m, io, e, si) :
        m \in InitMagics(e), io \in InitFlags(e), si \in {e, BOOT_SWAP_TYPE_PERM}}

\* What the primary-state hook may answer: regular processing, an error,
\* or success with a state of its own.
HookStates ==
    {[magic |-> BOOT_MAGIC_GOOD, swap_type |-> BOOT_SWAP_TYPE_NONE,
      copy_done |-> BOOT_FLAG_SET, image_ok |-> BOOT_FLAG_UNSET, image_num |-> 0],
     [magic |-> BOOT_MAGIC_UNSET, swap_type |-> BOOT_SWAP_TYPE_NONE,
      copy_done |-> BOOT_FLAG_UNSET, image_ok |-> BOOT_FLAG_UNSET, image_num |-> 0]}

HookRegular == [rc |-> BOOT_HOOK_REGULAR, state |-> ZeroState]

HookAnswers ==
    {HookRegular, [rc |-> BOOT_EBADVECT, state |-> ZeroState]}
    \cup {[rc |-> 0, state |-> st] : st \in HookStates}

NoOp ==
    [op |-> "init", permanent |-> 0, hook |-> HookRegular,
     returned |-> TRUE, rc |-> 0, log |-> <<>>, pre |-> flash,
     primary_slot |-> ZeroState, secondary_slot |-> ZeroState]

Slotted(p, s) == [slot \in Slots |-> IF slot = "primary" THEN p ELSE s]

Init ==
    /\ \E pf \in Platforms : erased_val = pf.erased_val /\ align = pf.align
    /\ \E p \in InitPrimary(erased_val), s \in InitSecondary(erased_val) :
          flash = Slotted(p, s)
    /\ last = NoOp

\* The decision over every pair of trailers; the alignment plays no part in
\* a read.
InitDecision ==
    /\ erased_val \in ErasedVals
    /\ align = BOOT_MAX_ALIGN
    /\ \E p \in AllPrimary(erased_val), s \in AllSecondary(erased_val) :
          flash = Slotted(p, s)
    /\ last = NoOp

\* The operation ended as r says: the flash is what the run left and last
\* records the run.
Ended(op, permanent, hook, r, ps, ss) ==
    /\ flash' = r.ctx.flash
    /\ last' = [op |-> op, permanent |-> permanent, hook |-> hook,
                returned |-> r.ctx.alive, rc |-> r.rc, log |-> r.ctx.log,
                pre |-> flash, primary_slot |-> ps, secondary_slot |-> ss]
    /\ UNCHANGED <<erased_val, align>>

SwapTypeEnded(hook, r) ==
    Ended("swap_type", 0, hook, r, r.primary_slot, r.secondary_slot)

boot_swap_type(hook, fault) ==
    SwapTypeEnded(hook, boot_swap_type_multi(NewCtx(flash, fault), hook))

boot_set_pending(permanent, fault) ==
    Ended("set_pending", permanent, HookRegular,
          boot_set_pending_multi(NewCtx(flash, fault), permanent),
          ZeroState, ZeroState)

boot_set_confirmed(fault) ==
    Ended("set_confirmed", 0, HookRegular,
          boot_set_confirmed_multi(NewCtx(flash, fault)),
          ZeroState, ZeroState)

SwapTypeStep ==
    \E hook \in HookAnswers :
       \E fault \in PlansFor(boot_swap_type_multi(NewCtx(flash, NoFault), hook).ctx.log) :
          boot_swap_type(hook, fault)

SetPendingStep ==
    \E permanent \in {0, 1} :
       \E fault \in PlansFor(boot_set_pending_multi(NewCtx(flash, NoFault), permanent).ctx.log) :
          boot_set_pending(permanent, fault)

SetConfirmedStep ==
    \E fault \in PlansFor(boot_set_confirmed_multi(NewCtx(flash, NoFault)).ctx.log) :
       boot_set_confirmed(fault)

Next == SwapTypeStep \/ SetPendingStep \/ SetConfirmedStep

Spec == Init /\ [][Next]_vars

\* The bootloader alone: boot_swap_type over every pair of trailers.
SpecDecision == InitDecision /\ [][SwapTypeStep]_vars

----------------------------------------------------------------------------
(* What a trailer holds, read off the flash bytes by the definitions of    *)
(* the format: the vocabulary of the properties below.                     *)

MagicOf(fl, slot) ==
    LET m == [i \in 1..BOOT_MAGIC_SZ |-> fl[slot][boot_magic_off(slot) + i - 1]]
    IN  IF \A i \in 1..BOOT_MAGIC_SZ : m[i] = erased_val THEN BOOT_MAGIC_UNSET
        ELSE IF m = boot_img_magic THEN BOOT_MAGIC_GOOD
        ELSE BOOT_MAGIC_BAD

FlagOf(fl, slot, off) ==
    IF fl[slot][off] = erased_val THEN BOOT_FLAG_UNSET
    ELSE IF fl[slot][off] = 1 THEN BOOT_FLAG_SET
    ELSE BOOT_FLAG_BAD

ImageOkOf(fl, slot) == FlagOf(fl, slot, boot_image_ok_off(slot))

CopyDoneOf(fl, slot) == FlagOf(fl, slot, boot_copy_done_off(slot))

ErasedTrailer(fl, slot) == \A a \in TrailerOffs : fl[slot][a] = erased_val

\* The calls of a log that are programs.
Writes(log) == SelectSeq(log, LAMBDA e : e.call = "write")

Erases(log) == SelectSeq(log, LAMBDA e : e.call = "erase")

\* No driver call of the run failed.
NoFailure(log) == \A i \in 1..Len(log) : log[i].res = "ok"

FailedOn(log, slot) ==
    \E i \in 1..Len(log) : log[i].slot = slot /\ log[i].res = "fail"

\* The flash takes the trailer writes of the code: its alignment is one the
\* driver reports and BOOT_MAX_ALIGN covers.
AlignSupported == align >= 1 /\ align <= BOOT_MAX_ALIGN

SwapTypeReturned == last.op = "swap_type" /\ last.returned

\* What boot_swap_type_multi returns from the flash as it is now, the hook
\* declining and every driver call succeeding.
SwapTypeNow == boot_swap_type_multi(NewCtx(flash, NoFault), HookRegular).rc

\* The primary state the last boot_swap_type worked on: the trailer's, or
\* the hook's when the hook answered for it.
PrimaryView ==
    IF last.hook.rc = BOOT_HOOK_REGULAR
    THEN [magic |-> MagicOf(last.pre, "primary"),
          image_ok |-> ImageOkOf(last.pre, "primary"),
          copy_done |-> CopyDoneOf(last.pre, "primary")]
    ELSE [magic |-> last.hook.state.magic,
          image_ok |-> last.hook.state.image_ok,
          copy_done |-> last.hook.state.copy_done]

SecondaryView ==
    [magic |-> MagicOf(last.pre, "secondary"),
     image_ok |-> ImageOkOf(last.pre, "secondary")]

\* Both slot states were obtained: the hook answered or declined without
\* error and no open or read failed.
BothReadable ==
    /\ last.hook.rc \in {BOOT_HOOK_REGULAR, 0}
    /\ NoFailure(last.log)

\* The decision in closed form, for a primary state p and secondary state s.
Decision(p, s) ==
    IF s.magic = BOOT_MAGIC_GOOD /\ s.image_ok = BOOT_FLAG_UNSET
    THEN BOOT_SWAP_TYPE_TEST
    ELSE IF s.magic = BOOT_MAGIC_GOOD /\ s.image_ok = BOOT_FLAG_SET
    THEN BOOT_SWAP_TYPE_PERM
    ELSE IF /\ s.magic = BOOT_MAGIC_UNSET
            /\ p.magic = BOOT_MAGIC_GOOD
            /\ p.image_ok = BOOT_FLAG_UNSET
            /\ p.copy_done = BOOT_FLAG_SET
    THEN BOOT_SWAP_TYPE_REVERT
    ELSE BOOT_SWAP_TYPE_NONE

----------------------------------------------------------------------------
(* C1. For every pair of readable slot states, boot_swap_type_multi        *)
(* returns TEST iff the secondary has magic GOOD and image_ok UNSET, PERM  *)
(* iff it has magic GOOD and image_ok SET, REVERT iff the secondary magic  *)
(* is UNSET and the primary has magic GOOD, image_ok UNSET and copy_done   *)
(* SET, and NONE in every other case.                                      *)
C1_DecisionTable ==
    (SwapTypeReturned /\ BothReadable)
        => last.rc = Decision(PrimaryView, SecondaryView)

\* A revert decided from the two trailers.
C1_Witness ==
    /\ SwapTypeReturned /\ BothReadable
    /\ last.hook.rc = BOOT_HOOK_REGULAR
    /\ MagicOf(last.pre, "secondary") = BOOT_MAGIC_UNSET
    /\ last.rc = BOOT_SWAP_TYPE_REVERT

----------------------------------------------------------------------------
\* The primary slot state was not obtained: the hook reported an error, or
\* the regular read failed at the open or at a read of the primary area.
PrimaryUnobtained ==
    \/ last.hook.rc \notin {BOOT_HOOK_REGULAR, 0}
    \/ last.hook.rc = BOOT_HOOK_REGULAR /\ FailedOn(last.log, "primary")

(* C5. boot_swap_type_multi returns a value in {NONE, TEST, PERM, REVERT,  *)
(* PANIC}, and PANIC exactly when the primary slot state cannot be         *)
(* obtained: the hook reports an error, or opening or reading the primary  *)
(* flash area fails.                                                       *)
C5_PanicIffPrimaryUnread ==
    SwapTypeReturned =>
        /\ last.rc \in {BOOT_SWAP_TYPE_NONE, BOOT_SWAP_TYPE_TEST,
                        BOOT_SWAP_TYPE_PERM, BOOT_SWAP_TYPE_REVERT,
                        BOOT_SWAP_TYPE_PANIC}
        /\ (last.rc = BOOT_SWAP_TYPE_PANIC) <=> PrimaryUnobtained

\* A panic on a read of the primary trailer that failed after its open.
C5_Witness ==
    /\ SwapTypeReturned
    /\ last.hook.rc = BOOT_HOOK_REGULAR
    /\ \E i \in 1..Len(last.log) :
          /\ last.log[i].call = "read"
          /\ last.log[i].slot = "primary"
          /\ last.log[i].res = "fail"
    /\ last.rc = BOOT_SWAP_TYPE_PANIC

----------------------------------------------------------------------------
\* The primary state is in and the open or a read of the secondary failed.
SecondaryUnreachable ==
    /\ SwapTypeReturned
    /\ ~PrimaryUnobtained
    /\ FailedOn(last.log, "secondary")

(* C6. When the secondary slot is unreachable (its open or a read of its   *)
(* trailer fails) and the primary state is readable, boot_swap_type_multi  *)
(* does not return PANIC: it returns what it returns for a secondary with  *)
(* magic UNSET and image_ok UNSET, which is NONE for a primary with magic  *)
(* GOOD and all flags UNSET.                                               *)
C6_UnreachableSecondary ==
    SecondaryUnreachable =>
        /\ last.rc # BOOT_SWAP_TYPE_PANIC
        /\ last.rc = Decision(PrimaryView,
                              [magic |-> BOOT_MAGIC_UNSET,
                               image_ok |-> BOOT_FLAG_UNSET])
        /\ last.secondary_slot = EmptySecondary
        /\ (/\ PrimaryView.magic = BOOT_MAGIC_GOOD
            /\ PrimaryView.image_ok = BOOT_FLAG_UNSET
            /\ PrimaryView.copy_done = BOOT_FLAG_UNSET)
              => last.rc = BOOT_SWAP_TYPE_NONE

\* A pending secondary whose trailer stops answering after its magic was
\* read, under a primary with magic GOOD and no flag set.
C6_Witness ==
    /\ SecondaryUnreachable
    /\ last.hook.rc = BOOT_HOOK_REGULAR
    /\ MagicOf(last.pre, "primary") = BOOT_MAGIC_GOOD
    /\ ImageOkOf(last.pre, "primary") = BOOT_FLAG_UNSET
    /\ CopyDoneOf(last.pre, "primary") = BOOT_FLAG_UNSET
    /\ MagicOf(last.pre, "secondary") = BOOT_MAGIC_GOOD
    /\ \E i \in 1..Len(last.log) :
          /\ last.log[i].call = "read"
          /\ last.log[i].slot = "secondary"
          /\ last.log[i].off = boot_swap_info_off("secondary")
          /\ last.log[i].res = "fail"
    /\ last.rc = BOOT_SWAP_TYPE_NONE

----------------------------------------------------------------------------
(* Properties of boot_set_pending_multi followed by boot_swap_type_multi.  *)

SetPendingReturned == last.op = "set_pending" /\ last.returned

\* The swap type a call of boot_set_pending_multi asks for.
Requested ==
    IF last.permanent # 0 THEN BOOT_SWAP_TYPE_PERM ELSE BOOT_SWAP_TYPE_TEST

\* boot_set_pending_multi ran from an erased secondary trailer on a flash
\* that takes its writes, and no driver call failed.
PendingFromErased ==
    /\ SetPendingReturned
    /\ NoFailure(last.log)
    /\ ErasedTrailer(last.pre, "secondary")
    /\ AlignSupported

(* C2. From a secondary slot whose trailer is fully erased, a call of      *)
(* boot_set_pending_multi in which every flash operation succeeds returns  *)
(* 0, and the next boot_swap_type_multi returns PERM when permanent is     *)
(* non-zero and TEST when it is 0, whatever the readable primary state.    *)
C2_PendingFromErased ==
    [][ PendingFromErased =>
          /\ last.rc = 0
          /\ (SwapTypeReturned' /\ BothReadable') => last'.rc = Requested
      ]_vars

\* A permanent request from an erased secondary has returned 0 over a
\* primary slot awaiting its confirmation, and the swap type that follows
\* is PERM.
C2_Witness ==
    /\ PendingFromErased
    /\ last.permanent # 0
    /\ last.rc = 0
    /\ MagicOf(flash, "primary") = BOOT_MAGIC_GOOD
    /\ ImageOkOf(flash, "primary") = BOOT_FLAG_UNSET
    /\ CopyDoneOf(flash, "primary") = BOOT_FLAG_SET
    /\ SwapTypeNow = BOOT_SWAP_TYPE_PERM

(* C3. Whenever boot_set_pending_multi returns 0, from any secondary       *)
(* trailer state, the next boot_swap_type_multi reports a swap of the      *)
(* requested kind: PERM when permanent is non-zero, TEST when it is 0.     *)
C3_PendingAsRequested ==
    [][ (SetPendingReturned /\ last.rc = 0 /\ NoFailure(last.log)
           /\ SwapTypeReturned' /\ BothReadable')
          => last'.rc = Requested
      ]_vars

----------------------------------------------------------------------------
(* boot_set_confirmed_multi followed by boot_swap_type_multi.              *)

SetConfirmedReturned == last.op = "set_confirmed" /\ last.returned

\* boot_swap_type_multi returned, having read the primary state from the
\* trailer of the primary slot.
SwapTypeFromTrailer ==
    SwapTypeReturned /\ last.hook.rc = BOOT_HOOK_REGULAR

\* The revert scenario: a primary slot swapped in and not confirmed, over a
\* secondary slot without magic.
RevertScenario(fl) ==
    /\ MagicOf(fl, "primary") = BOOT_MAGIC_GOOD
    /\ ImageOkOf(fl, "primary") = BOOT_FLAG_UNSET
    /\ CopyDoneOf(fl, "primary") = BOOT_FLAG_SET
    /\ MagicOf(fl, "secondary") = BOOT_MAGIC_UNSET

(* C4. Whenever boot_set_confirmed_multi returns 0, from any primary       *)
(* trailer state, no later boot_swap_type_multi that reads the primary     *)
(* trailer returns REVERT, whatever the secondary slot holds and whatever  *)
(* calls come in between; in particular the revert scenario yields REVERT  *)
(* before the confirm and NONE after it.                                   *)
C4_ConfirmedNeverReverts ==
    /\ []((SetConfirmedReturned /\ last.rc = 0)
            => [](SwapTypeFromTrailer => last.rc # BOOT_SWAP_TYPE_REVERT))
    /\ [][ /\ (RevertScenario(flash) /\ SwapTypeFromTrailer' /\ BothReadable')
              => last'.rc = BOOT_SWAP_TYPE_REVERT
           /\ (SetConfirmedReturned /\ last.rc = 0 /\ RevertScenario(last.pre)
                 /\ SwapTypeFromTrailer' /\ BothReadable')
              => last'.rc = BOOT_SWAP_TYPE_NONE
         ]_vars

\* The revert scenario confirmed: the swap type was REVERT before the call,
\* the call wrote image_ok and returned 0, and the swap type is NONE now.
C4_Witness ==
    /\ SetConfirmedReturned /\ last.rc = 0
    /\ RevertScenario(last.pre)
    /\ boot_swap_type_multi(NewCtx(last.pre, NoFault), HookRegular).rc
          = BOOT_SWAP_TYPE_REVERT
    /\ Len(Writes(last.log)) = 1
    /\ SwapTypeNow = BOOT_SWAP_TYPE_NONE

----------------------------------------------------------------------------
(* The flash traffic of boot_set_pending_multi.                            *)

\* boot_set_pending_multi reached its switch and found the magic m: the
\* open and the four reads of boot_read_swap_state succeeded.
PendingFound(m) ==
    /\ last.op = "set_pending"
    /\ Len(last.log) >= 5
    /\ \A i \in 1..5 : last.log[i].res = "ok"
    /\ MagicOf(last.pre, "secondary") = m

\* The writes of the BOOT_MAGIC_UNSET case, in order: offset and payload.
PendingWrites ==
    <<[off |-> boot_magic_off("secondary"), payload |-> boot_img_magic]>>
    \o (IF last.permanent # 0
        THEN <<[off |-> boot_image_ok_off("secondary"),
                payload |-> <<BOOT_FLAG_SET>>]>>
        ELSE <<>>)
    \o <<[off |-> boot_swap_info_off("secondary"),
          payload |-> <<BOOT_SET_SWAP_INFO(0, Requested)>>]>>

(* C7. In the magic-UNSET path of boot_set_pending_multi the flash writes  *)
(* are issued in the order magic, image_ok (only when permanent),          *)
(* swap_info, and stop at the first write that fails: no field is written  *)
(* after a failed write and the call returns a non-zero error.             *)
C7_PendingWriteOrder ==
    PendingFound(BOOT_MAGIC_UNSET) =>
        LET w == Writes(last.log) IN
        /\ Len(w) <= Len(PendingWrites)
        /\ \A i \in 1..Len(w) :
              /\ w[i].slot = "secondary"
              /\ w[i].off = PendingWrites[i].off
              /\ \A k \in 1..Len(PendingWrites[i].payload) :
                    w[i].data[k] = PendingWrites[i].payload[k]
              /\ i < Len(w) => w[i].res = "ok"
        /\ (\E i \in 1..Len(w) : w[i].res = "fail")
              => last.returned /\ last.rc # 0
        /\ (last.returned /\ last.rc = 0) => Len(w) = Len(PendingWrites)

\* A permanent request whose magic write succeeded and whose image_ok write
\* failed: two writes, no swap_info, a non-zero return.
C7_Witness ==
    /\ PendingFound(BOOT_MAGIC_UNSET)
    /\ last.permanent # 0
    /\ Len(Writes(last.log)) = 2
    /\ Writes(last.log)[1].res = "ok"
    /\ Writes(last.log)[2].off = boot_image_ok_off("secondary")
    /\ Writes(last.log)[2].res = "fail"
    /\ last.returned /\ last.rc # 0

(* C9. When boot_set_pending_multi finds the secondary magic BAD it writes *)
(* no trailer field, erases the whole secondary area (offset 0, length the *)
(* size of the area) and returns EBADIMAGE; after a successful erase the   *)
(* secondary trailer reads as erased, and a following                      *)
(* boot_set_pending_multi takes the UNSET path and succeeds.               *)
C9_BadMagicErases ==
    [][ PendingFound(BOOT_MAGIC_BAD) =>
          /\ Writes(last.log) = <<>>
          /\ Len(Erases(last.log)) = 1
          /\ Erases(last.log)[1].slot = "secondary"
          /\ Erases(last.log)[1].off = 0
          /\ Erases(last.log)[1].len = flash_area_get_size("secondary")
          /\ last.returned => last.rc = BOOT_EBADIMAGE
          /\ Erases(last.log)[1].res = "ok" =>
                /\ ErasedTrailer(flash, "secondary")
                /\ (SetPendingReturned' /\ NoFailure(last'.log) /\ AlignSupported)
                      => /\ last'.rc = 0
                         /\ Len(Writes(last'.log)) >= 2
                         /\ Writes(last'.log)[1].off = boot_magic_off("secondary")
      ]_vars

\* A corrupt secondary slot was erased with EBADIMAGE, and the request made
\* again now writes the trailer and returns 0.
C9_Witness ==
    /\ PendingFound(BOOT_MAGIC_BAD)
    /\ last.returned /\ last.rc = BOOT_EBADIMAGE
    /\ Erases(last.log)[1].res = "ok"
    /\ MagicOf(flash, "secondary") = BOOT_MAGIC_UNSET
    /\ AlignSupported
    /\ boot_set_pending_multi(NewCtx(flash, NoFault), 0).rc = 0

----------------------------------------------------------------------------
\* The writes of a log that changed the flash.
Landed(log) ==
    SelectSeq(log, LAMBDA e : e.call = "write" /\ e.res \notin {"fail", "reset"})

\* Every write of the log is the write of image_ok in the primary slot.
ConfirmWritesOnly(log) ==
    \A i \in 1..Len(log) :
       log[i].call = "write" =>
          /\ log[i].slot = "primary"
          /\ log[i].off = boot_image_ok_off("primary")
          /\ log[i].data[1] = BOOT_FLAG_SET

(* C10. Confirm idempotence: two successive calls of                       *)
(* boot_set_confirmed_multi on a primary slot whose magic is GOOD perform  *)
(* at most one flash write in total, at image_ok with BOOT_FLAG_SET: at    *)
(* most one write changes the flash, and at most one is issued unless a    *)
(* driver call of the first call failed; once the first call has written   *)
(* image_ok the second call performs no write and returns success.         *)
C10_ConfirmIdempotent ==
    [][ (/\ last.op = "set_confirmed"
         /\ MagicOf(last.pre, "primary") = BOOT_MAGIC_GOOD
         /\ last'.op = "set_confirmed")
        => /\ ConfirmWritesOnly(last.log) /\ ConfirmWritesOnly(last'.log)
           /\ Len(Writes(last.log)) <= 1 /\ Len(Writes(last'.log)) <= 1
           /\ Len(Landed(last.log)) + Len(Landed(last'.log)) <= 1
           /\ (last.returned /\ NoFailure(last.log))
                 => Len(Writes(last.log)) + Len(Writes(last'.log)) <= 1
           /\ (Len(Writes(last.log)) = 1 /\ Writes(last.log)[1].res = "ok")
                 => /\ Writes(last'.log) = <<>>
                    /\ (last'.returned /\ NoFailure(last'.log)) => last'.rc = 0
      ]_vars

\* A first call has written image_ok on an unconfirmed primary slot, and
\* the call made again now writes nothing and returns 0.
C10_Witness ==
    /\ SetConfirmedReturned /\ last.rc = 0
    /\ MagicOf(last.pre, "primary") = BOOT_MAGIC_GOOD
    /\ ImageOkOf(last.pre, "primary") = BOOT_FLAG_UNSET
    /\ Len(Writes(last.log)) = 1
    /\ Writes(last.log)[1].res = "ok"
    /\ ImageOkOf(flash, "primary") = BOOT_FLAG_SET
    /\ boot_set_confirmed_multi(NewCtx(flash, NoFault)).rc = 0
    /\ Writes(boot_set_confirmed_multi(NewCtx(flash, NoFault)).ctx.log) = <<>>

----------------------------------------------------------------------------
(* Power loss inside boot_set_pending_multi and boot_set_confirmed_multi.  *)

\* A mutator was cut short by a power loss: before its first driver call,
\* at one of its programs or at its erase.
Interrupted ==
    last.op \in {"set_pending", "set_confirmed"} /\ ~last.returned

\* The power loss came in the middle of the program of the field at off of
\* slot and left it partially written.
TornAt(slot, off) ==
    /\ Interrupted
    /\ Len(last.log) > 0
    /\ last.log[Len(last.log)].call = "write"
    /\ last.log[Len(last.log)].res = "torn_bad"
    /\ last.log[Len(last.log)].slot = slot
    /\ last.log[Len(last.log)].off = off

\* The interrupted field is one that decodes: it reads as BAD.
TornBad ==
    \/ TornAt("secondary", boot_magic_off("secondary"))
          /\ MagicOf(flash, "secondary") = BOOT_MAGIC_BAD
    \/ TornAt("secondary", boot_image_ok_off("secondary"))
          /\ ImageOkOf(flash, "secondary") = BOOT_FLAG_BAD
    \/ TornAt("primary", boot_image_ok_off("primary"))
          /\ ImageOkOf(flash, "primary") = BOOT_FLAG_BAD

DefinedSwapTypes ==
    {BOOT_SWAP_TYPE_NONE, BOOT_SWAP_TYPE_TEST, BOOT_SWAP_TYPE_PERM,
     BOOT_SWAP_TYPE_REVERT, BOOT_SWAP_TYPE_PANIC}

SafeSwapTypes ==
    {BOOT_SWAP_TYPE_PANIC, BOOT_SWAP_TYPE_NONE, BOOT_SWAP_TYPE_REVERT}

(* C8. Power-fail closure: after boot_set_pending_multi or                 *)
(* boot_set_confirmed_multi is cut short between two writes or in the      *)
(* middle of one, the following boot_swap_type_multi returns a defined     *)
(* swap type.  When the write cut short left the secondary magic or the    *)
(* secondary image_ok BAD, that type is PANIC, NONE or REVERT.  A          *)
(* swap_info left partially written plays no part: with both slots read,   *)
(* the pending swap is returned, TEST or PERM.  A primary image_ok left    *)
(* BAD never gives REVERT from the trailer, and a pending secondary slot   *)
(* still gives TEST or PERM.                                               *)
C8_PowerFailClosure ==
    [][ (Interrupted /\ SwapTypeReturned') =>
          /\ last'.rc \in DefinedSwapTypes
          /\ TornAt("secondary", boot_magic_off("secondary"))
                => /\ MagicOf(flash, "secondary") = BOOT_MAGIC_BAD
                   /\ last'.rc \in SafeSwapTypes
          /\ TornAt("secondary", boot_image_ok_off("secondary"))
                => /\ ImageOkOf(flash, "secondary") = BOOT_FLAG_BAD
                   /\ last'.rc \in SafeSwapTypes
          /\ (TornAt("secondary", boot_swap_info_off("secondary")) /\ BothReadable')
                => last'.rc \in {BOOT_SWAP_TYPE_TEST, BOOT_SWAP_TYPE_PERM}
          /\ TornAt("primary", boot_image_ok_off("primary"))
                => /\ ImageOkOf(flash, "primary") = BOOT_FLAG_BAD
                   /\ SwapTypeFromTrailer' => last'.rc # BOOT_SWAP_TYPE_REVERT
                   /\ (BothReadable' /\ MagicOf(flash, "secondary") = BOOT_MAGIC_GOOD
                         /\ ImageOkOf(flash, "secondary") # BOOT_FLAG_BAD)
                        => last'.rc \in {BOOT_SWAP_TYPE_TEST, BOOT_SWAP_TYPE_PERM}
      ]_vars

\* A permanent request lost power in the middle of its image_ok write: the
\* magic is GOOD, image_ok is BAD and the swap type is NONE.
C8_Witness ==
    /\ TornAt("secondary", boot_image_ok_off("secondary"))
    /\ last.permanent # 0
    /\ MagicOf(flash, "secondary") = BOOT_MAGIC_GOOD
    /\ ImageOkOf(flash, "secondary") = BOOT_FLAG_BAD
    /\ SwapTypeNow = BOOT_SWAP_TYPE_NONE

\* C8 as it is worded, for a swap type decided from the two trailers:
\* whenever the interrupted field is left BAD, the following swap type is
\* PANIC, NONE or REVERT.
C8_AsWorded ==
    [][ (Interrupted /\ SwapTypeFromTrailer') =>
          /\ last'.rc \in DefinedSwapTypes
          /\ TornBad => last'.rc \in SafeSwapTypes
      ]_vars

----------------------------------------------------------------------------
(* C11. Pending idempotence: boot_set_pending_multi, for either value of   *)
(* permanent, on a secondary slot whose magic already reads GOOD performs  *)
(* no flash write and no erase, leaves the trailer unchanged and returns   *)
(* success.                                                                *)
C11_PendingIdempotent ==
    PendingFound(BOOT_MAGIC_GOOD) =>
        /\ Writes(last.log) = <<>>
        /\ Erases(last.log) = <<>>
        /\ flash = last.pre
        /\ last.returned
        /\ last.rc = 0

\* A permanent request on a slot pending for a test only: nothing is
\* written and 0 is returned.
C11_Witness ==
    /\ PendingFound(BOOT_MAGIC_GOOD)
    /\ last.permanent # 0
    /\ ImageOkOf(last.pre, "secondary") = BOOT_FLAG_UNSET
    /\ Writes(last.log) = <<>>
    /\ last.returned /\ last.rc = 0

----------------------------------------------------------------------------
\* boot_set_confirmed_multi reached its switch and found the magic m: the
\* open and the four reads of boot_read_swap_state succeeded.
ConfirmFound(m) ==
    /\ last.op = "set_confirmed"
    /\ Len(last.log) >= 5
    /\ \A i \in 1..5 : last.log[i].res = "ok"
    /\ MagicOf(last.pre, "primary") = m

\* The flash fl with the copy_done byte of the primary slot set to b.
WithCopyDone(fl, b) ==
    [fl EXCEPT !["primary"][boot_copy_done_off("primary")] = b]

\* What the caller and the flash see of a run r of boot_set_confirmed_multi.
ConfirmOutcome(r) ==
    [rc |-> r.rc, returned |-> r.ctx.alive, writes |-> Writes(r.ctx.log),
     image_ok |-> ImageOkOf(r.ctx.flash, "primary")]

(* C12. boot_set_confirmed_multi dispatches on the primary magic only:     *)
(* with magic UNSET it returns success without any write; with magic BAD   *)
(* it returns EBADVECT without any write; with magic GOOD its outcome and  *)
(* its writes depend only on image_ok and are the same for every value of  *)
(* copy_done (UNSET, SET or BAD).                                          *)
C12_ConfirmDispatch ==
    /\ ConfirmFound(BOOT_MAGIC_UNSET) =>
          Writes(last.log) = <<>> /\ last.returned /\ last.rc = 0
    /\ ConfirmFound(BOOT_MAGIC_BAD) =>
          Writes(last.log) = <<>> /\ last.returned /\ last.rc = BOOT_EBADVECT
    /\ ConfirmFound(BOOT_MAGIC_GOOD) =>
          /\ ImageOkOf(last.pre, "primary") # BOOT_FLAG_UNSET =>
                Writes(last.log) = <<>> /\ last.returned /\ last.rc = 0
          /\ (ImageOkOf(last.pre, "primary") = BOOT_FLAG_UNSET /\ AlignSupported) =>
                /\ Len(Writes(last.log)) = 1
                /\ ConfirmWritesOnly(last.log)
                /\ last.returned =>
                      (last.rc = 0 <=> Writes(last.log)[1].res = "ok")
          /\ \A b \in InitFlags(erased_val) :
                \A fault \in PlansFor(
                      boot_set_confirmed_multi(NewCtx(last.pre, NoFault)).ctx.log) :
                   ConfirmOutcome(boot_set_confirmed_multi(
                         NewCtx(WithCopyDone(last.pre, b), fault)))
                     = ConfirmOutcome(boot_set_confirmed_multi(
                         NewCtx(last.pre, fault)))

\* A primary slot programmed with a padded image, which no swap put there
\* (copy_done UNSET), is confirmed: image_ok is written and 0 returned.
C12_Witness ==
    /\ ConfirmFound(BOOT_MAGIC_GOOD)
    /\ CopyDoneOf(last.pre, "primary") = BOOT_FLAG_UNSET
    /\ ImageOkOf(last.pre, "primary") = BOOT_FLAG_UNSET
    /\ Len(Writes(last.log)) = 1
    /\ last.returned /\ last.rc = 0
    /\ ImageOkOf(flash, "primary") = BOOT_FLAG_SET

----------------------------------------------------------------------------
(* Flash area handles.                                                     *)

\* The handles held after the driver calls of log from call i on, held
\* being the slots held before it; ok is FALSE when a handle that is not
\* held is closed or used, or a second handle is opened on a held slot.
RECURSIVE Handles(_, _, _)
Handles(log, i, held) ==
    IF i > Len(log) THEN [ok |-> TRUE, held |-> held]
    ELSE IF log[i].call = "open"
    THEN IF log[i].res # "ok" THEN Handles(log, i + 1, held)
         ELSE IF log[i].slot \in held THEN [ok |-> FALSE, held |-> held]
         ELSE Handles(log, i + 1, held \cup {log[i].slot})
    ELSE IF log[i].slot \notin held THEN [ok |-> FALSE, held |-> held]
    ELSE IF log[i].call = "close"
    THEN Handles(log, i + 1, held \ {log[i].slot})
    ELSE Handles(log, i + 1, held)

OpensOk(log) == SelectSeq(log, LAMBDA e : e.call = "open" /\ e.res = "ok")

Closes(log) == SelectSeq(log, LAMBDA e : e.call = "close")

(* C13. Every flash area handle successfully opened by a public operation  *)
(* is closed exactly once before the operation returns, on success and on  *)
(* every error path; after any sequence of public operations no handle is  *)
(* open, and no handle is closed that was not opened.                      *)
C13_HandlesClosed ==
    /\ Handles(last.log, 1, {}).ok
    /\ Len(Closes(last.log)) <= Len(OpensOk(last.log))
    /\ last.returned =>
          /\ Handles(last.log, 1, {}).held = {}
          /\ Len(Closes(last.log)) = Len(OpensOk(last.log))

\* boot_set_pending_multi returned an error after a failed write, its one
\* handle opened and closed.
C13_Witness ==
    /\ SetPendingReturned /\ last.rc # 0
    /\ \E i \in 1..Len(last.log) :
          last.log[i].call = "write" /\ last.log[i].res = "fail"
    /\ Len(OpensOk(last.log)) = 1
    /\ Len(Closes(last.log)) = 1
    /\ last.log[Len(last.log)].call = "close"

----------------------------------------------------------------------------
\* A mutator returned to its caller.
MutatorReturned ==
    last.op \in {"set_pending", "set_confirmed"} /\ last.returned

(* C14. Every failure of a flash driver operation (open, read, write or    *)
(* erase) during boot_set_pending_multi or boot_set_confirmed_multi        *)
(* surfaces to the caller as the error EFLASH: no flash failure is         *)
(* swallowed.                                                              *)
C14_FlashFailureSurfaces ==
    (MutatorReturned /\ ~NoFailure(last.log)) => last.rc = BOOT_EFLASH

----------------------------------------------------------------------------
\* What an erased trailer is to read as.
ErasedSlotState ==
    [magic |-> BOOT_MAGIC_UNSET, swap_type |-> BOOT_SWAP_TYPE_NONE,
     copy_done |-> BOOT_FLAG_UNSET, image_ok |-> BOOT_FLAG_UNSET,
     image_num |-> 0]

(* C15. A freshly erased slot (every byte equal to the flash's erased      *)
(* value) is read by boot_read_swap_state as magic UNSET, swap_type NONE,  *)
(* copy_done UNSET, image_ok UNSET, image_num 0, for erased value 0xFF and *)
(* for erased value 0x00 alike.                                            *)
C15_ErasedSlotReads ==
    /\ erased_val \in {0, 255}
    /\ (SwapTypeReturned /\ BothReadable) =>
          /\ ErasedTrailer(last.pre, "secondary")
                => last.secondary_slot = ErasedSlotState
          /\ (SwapTypeFromTrailer /\ ErasedTrailer(last.pre, "primary"))
                => last.primary_slot = ErasedSlotState
    /\ \A slot \in Slots :
          ErasedTrailer(flash, slot) =>
             /\ boot_read_swap_state(NewCtx(flash, NoFault), slot, ZeroState).rc = 0
             /\ boot_read_swap_state(NewCtx(flash, NoFault), slot, ZeroState).state
                   = ErasedSlotState

\* Both slots erased on a flash that erases to 0x00 were read, each as the
\* erased state.
C15_Witness ==
    /\ erased_val = 0
    /\ SwapTypeFromTrailer /\ NoFailure(last.log)
    /\ ErasedTrailer(last.pre, "primary")
    /\ ErasedTrailer(last.pre, "secondary")
    /\ last.primary_slot = ErasedSlotState
    /\ last.secondary_slot = ErasedSlotState

----------------------------------------------------------------------------
(* Trailer layout.                                                         *)

Reads(log, slot) ==
    SelectSeq(log, LAMBDA e : e.call = "read" /\ e.slot = slot)

\* The offsets of magic, swap_info, copy_done and image_ok, the order in
\* which boot_read_swap_state reads them, in a slot of size S whose fields
\* lie U bytes apart; and the lengths read.
FieldOffs(S, U) == <<S - 16, S - 16 - 3 * U, S - 16 - 2 * U, S - 16 - U>>

FieldLens == <<16, 1, 1, 1>>

\* The fields written by the last operation, in order, as indices of
\* FieldOffs.
FieldsWritten ==
    IF last.op = "set_confirmed" THEN <<4>>
    ELSE IF last.permanent # 0 THEN <<1, 4, 2>>
    ELSE <<1, 2>>

\* Every read and write of the last operation is at the offset of its field
\* in a layout with the fields U bytes apart.
LayoutAt(U) ==
    /\ \A slot \in Slots :
          \A i \in 1..Len(Reads(last.log, slot)) :
             /\ i <= 4
             /\ Reads(last.log, slot)[i].off
                   = FieldOffs(flash_area_get_size(slot), U)[i]
             /\ Reads(last.log, slot)[i].len = FieldLens[i]
    /\ \A i \in 1..Len(Writes(last.log)) :
          /\ i <= Len(FieldsWritten)
          /\ Writes(last.log)[i].off
                = FieldOffs(flash_area_get_size(Writes(last.log)[i].slot), U)[
                     FieldsWritten[i]]

(* C16. Trailer layout: in a flash area of size S the fields are read and  *)
(* written at off(magic) = S - 16, off(image_ok) = S - 16 - MAX_ALIGN,     *)
(* off(copy_done) = S - 16 - 2 MAX_ALIGN, off(swap_info) = S - 16 -        *)
(* 3 MAX_ALIGN, whatever the write alignment A of the flash.               *)
C16_LayoutByMaxAlign == LayoutAt(BOOT_MAX_ALIGN)

\* On a flash of write alignment 4 a permanent request wrote its three
\* fields, image_ok BOOT_MAX_ALIGN bytes below the magic.
C16_Witness ==
    /\ align = 4
    /\ SetPendingReturned /\ last.rc = 0 /\ last.permanent # 0
    /\ Len(Writes(last.log)) = 3
    /\ Writes(last.log)[2].off = SLOT_SIZE - 16 - 8
    /\ Writes(last.log)[2].len = 4
    /\ ImageOkOf(flash, "secondary") = BOOT_FLAG_SET

\* C16 as it is worded: the fields lie A bytes apart, A the write alignment
\* of the flash, for every supported A.
C16_LayoutByAlign == AlignSupported => LayoutAt(align)

----------------------------------------------------------------------------
(* Alignment of the field writes.                                          *)

\* n rounded up to a multiple of a.
RoundUp(n, a) == ((n + a - 1) \div a) * a

\* The payload of the i-th write of the last operation.
FieldPayload(i) ==
    IF last.op = "set_confirmed" THEN <<BOOT_FLAG_SET>>
    ELSE PendingWrites[i].payload

\* The write w is one program of the payload at the offset of field f,
\* padded with the erased value to the write alignment of the flash.
AlignedWrite(w, f, payload) ==
    /\ w.off = FieldOffs(flash_area_get_size(w.slot), BOOT_MAX_ALIGN)[f]
    /\ align # 0 => w.len = RoundUp(Len(payload), align)
    /\ Len(w.data) = w.len
    /\ \A k \in 1..w.len :
          w.data[k] = IF k <= Len(payload) THEN payload[k] ELSE erased_val
    /\ Len(payload) = 1 =>
          align # 0 /\ RoundUp(1, align) <= BOOT_MAX_ALIGN

\* The last operation came to call boot_write_trailer for a flag or for
\* swap_info: boot_set_confirmed_multi found magic GOOD and image_ok UNSET,
\* boot_set_pending_multi found magic UNSET and wrote the magic.
TrailerWriteReached ==
    \/ /\ ConfirmFound(BOOT_MAGIC_GOOD)
       /\ ImageOkOf(last.pre, "primary") = BOOT_FLAG_UNSET
    \/ /\ PendingFound(BOOT_MAGIC_UNSET)
       /\ Len(Writes(last.log)) >= 1
       /\ Writes(last.log)[1].res = "ok"

\* The writes of flags and swap_info in a log.
TrailerWrites(log) ==
    SelectSeq(log, LAMBDA e : e.call = "write" /\ e.len # BOOT_MAGIC_SZ)

(* C17. Alignment law: every trailer field write of the core (magic,       *)
(* image_ok, swap_info) is one flash program of exactly round_up(n, A)     *)
(* bytes at the offset of the field, n = 16 for the magic and n = 1 for a  *)
(* flag or swap_info, whose bytes after the n payload bytes all equal the  *)
(* erased value; boot_write_trailer fails without writing when A is 0      *)
(* (BOOT_EFLASH) or when round_up(n, A) exceeds MAX_ALIGN (-1).            *)
C17_AlignmentLaw ==
    /\ last.op \in {"set_pending", "set_confirmed"} =>
          \A i \in 1..Len(Writes(last.log)) :
             /\ i <= Len(FieldsWritten)
             /\ AlignedWrite(Writes(last.log)[i], FieldsWritten[i],
                             FieldPayload(i))
    /\ last.op = "swap_type" => Writes(last.log) = <<>>
    /\ (TrailerWriteReached /\ align = 0) =>
          /\ TrailerWrites(last.log) = <<>>
          /\ last.returned /\ last.rc = BOOT_EFLASH
    /\ (TrailerWriteReached /\ align # 0
           /\ RoundUp(1, align) > BOOT_MAX_ALIGN) =>
          /\ TrailerWrites(last.log) = <<>>
          /\ last.returned /\ last.rc = -1

\* On a flash of write alignment 4 and erased value 0 the flag image_ok was
\* written as 4 bytes, the flag and 3 bytes of padding.
C17_Witness ==
    /\ align = 4 /\ erased_val = 0
    /\ SetConfirmedReturned /\ last.rc = 0
    /\ Len(Writes(last.log)) = 1
    /\ Writes(last.log)[1].data = <<BOOT_FLAG_SET, 0, 0, 0>>
    /\ Writes(last.log)[1].off = boot_image_ok_off("primary")

----------------------------------------------------------------------------
(* The concrete scenarios: A = 8, erased value 0xFF, slot size 0x10000.    *)

\* On the flash of the scenarios, the writes of a test request and of a
\* permanent request from an erased secondary trailer and of a confirmation
\* of an unconfirmed primary slot, with swap_info at si and image_ok at ok.
ScenarioWrites(si, ok) ==
    (align = 8 /\ erased_val = 255 /\ SLOT_SIZE = 65536
        /\ NoFailure(last.log) /\ last.returned) =>
       /\ (PendingFromErased /\ last.permanent = 0) =>
             /\ Len(Writes(last.log)) = 2
             /\ \A i \in 1..2 : Writes(last.log)[i].slot = "secondary"
             /\ Writes(last.log)[1].off = 65520
             /\ Writes(last.log)[1].data = boot_img_magic
             /\ Writes(last.log)[2].off = si
             /\ Writes(last.log)[2].data =
                   <<1, 255, 255, 255, 255, 255, 255, 255>>
             /\ \A i \in 1..2 : Writes(last.log)[i].off # ok
       /\ (PendingFromErased /\ last.permanent # 0) =>
             /\ Len(Writes(last.log)) = 3
             /\ Writes(last.log)[1].off = 65520
             /\ Writes(last.log)[2].off = ok
             /\ Writes(last.log)[2].data[1] = 1
             /\ Writes(last.log)[3].off = si
             /\ Writes(last.log)[3].data[1] = 2
       /\ (ConfirmFound(BOOT_MAGIC_GOOD)
              /\ ImageOkOf(last.pre, "primary") = BOOT_FLAG_UNSET) =>
             /\ Len(Writes(last.log)) = 1
             /\ Writes(last.log)[1].slot = "primary"
             /\ Writes(last.log)[1].off = ok
             /\ Writes(last.log)[1].data[1] = 1

(* C18. With A = 8, MAX_ALIGN = 8, erased value 0xFF and slot size         *)
(* S = 0x10000: boot_set_pending_multi(0, 0) on an erased secondary writes *)
(* the 16-byte magic at 0xFFF0 and then the 8 bytes 0x01, 7 x 0xFF         *)
(* (swap_info) at 0xFFD8, with no write to image_ok; an image_ok write     *)
(* (permanent pending, or boot_set_confirmed_multi(0) on a primary with    *)
(* magic GOOD and image_ok UNSET) is a single write of 0x01 at 0xFFE8.     *)
C18_ScenarioOffsets == ScenarioWrites(65496, 65512)

\* A test request on the flash of the scenarios wrote the magic and
\* swap_info, which now holds 0x01 at 0xFFD8.
C18_Witness ==
    /\ align = 8 /\ erased_val = 255
    /\ PendingFromErased /\ last.permanent = 0 /\ last.rc = 0
    /\ Len(Writes(last.log)) = 2
    /\ flash["secondary"][65496] = 1
    /\ flash["secondary"][65512] = 255

\* C18 with the offsets of its wording: swap_info at 0xFFE8 and image_ok at
\* 0xFFF8.
C18_OffsetsAsWorded == ScenarioWrites(65512, 65528)

----------------------------------------------------------------------------
(* Intermediate states of boot_set_pending_multi.                          *)

\* boot_set_pending_multi, started on an erased secondary trailer, lost
\* power after its magic write and before its swap_info write: every write
\* before the power loss is whole, the magic is written and swap_info is
\* not.
ResetMidPending ==
    /\ Interrupted /\ last.op = "set_pending"
    /\ ErasedTrailer(last.pre, "secondary")
    /\ \A i \in 1..Len(last.log) :
          last.log[i].res \in {"ok", "reset", "torn_done"}
    /\ Len(Landed(last.log)) >= 1
    /\ \A i \in 1..Len(Landed(last.log)) :
          Landed(last.log)[i].off # boot_swap_info_off("secondary")

\* The power loss came after the image_ok write of a permanent request.
ImageOkLanded ==
    \E i \in 1..Len(Landed(last.log)) :
       Landed(last.log)[i].off = boot_image_ok_off("secondary")

(* C19. Intermediate states of boot_set_pending_multi on an erased         *)
(* secondary: a boot that follows a reset after the magic write and before *)
(* the swap_info write sees secondary magic GOOD with swap_type NONE, and  *)
(* boot_swap_type_multi classifies it by the secondary image_ok alone:     *)
(* TEST for permanent = 0; for permanent = 1, TEST when the reset came     *)
(* before the image_ok write and PERM when it came after it.               *)
C19_IntermediatePending ==
    [][ (ResetMidPending /\ SwapTypeReturned' /\ BothReadable') =>
          /\ last'.secondary_slot.magic = BOOT_MAGIC_GOOD
          /\ last'.secondary_slot.swap_type = BOOT_SWAP_TYPE_NONE
          /\ last'.rc = IF ImageOkOf(flash, "secondary") = BOOT_FLAG_SET
                        THEN BOOT_SWAP_TYPE_PERM ELSE BOOT_SWAP_TYPE_TEST
          /\ last.permanent = 0 => last'.rc = BOOT_SWAP_TYPE_TEST
          /\ (last.permanent # 0 /\ ~ImageOkLanded)
                => last'.rc = BOOT_SWAP_TYPE_TEST
          /\ (last.permanent # 0 /\ ImageOkLanded)
                => last'.rc = BOOT_SWAP_TYPE_PERM
      ]_vars

\* A permanent request lost power between its magic write and its image_ok
\* write, and the swap type read from the flash is TEST.
C19_Witness ==
    /\ ResetMidPending
    /\ last.permanent # 0
    /\ ~ImageOkLanded
    /\ MagicOf(flash, "secondary") = BOOT_MAGIC_GOOD
    /\ SwapTypeNow = BOOT_SWAP_TYPE_TEST

----------------------------------------------------------------------------
(* Monotone writes.                                                        *)

\* Trailers as an erase, the swap engine and the writes of this code leave
\* them: the bytes between the fields are erased, and a slot without magic
\* has a fully erased trailer.  The fully erased trailer and the well formed
\* one (magic GOOD, each flag erased or BOOT_FLAG_SET) are of this kind, and
\* so is a trailer with a field left corrupt by a power loss.
SoundTrailers(fl) ==
    \A slot \in Slots :
       /\ \A a \in TrailerOffs :
             (a < boot_magic_off(slot)
                /\ a \notin {boot_image_ok_off(slot), boot_copy_done_off(slot),
                             boot_swap_info_off(slot)})
               => fl[slot][a] = erased_val
       /\ MagicOf(fl, slot) = BOOT_MAGIC_UNSET => ErasedTrailer(fl, slot)

\* Every program of the log hits only bytes that were erased in the flash
\* fl the operation started from, and no two programs of the log overlap.
MonotoneWrites(fl, log) ==
    /\ \A i \in 1..Len(Writes(log)) :
          \A k \in 0..(Writes(log)[i].len - 1) :
             fl[Writes(log)[i].slot][Writes(log)[i].off + k] = erased_val
    /\ \A i, j \in 1..Len(Writes(log)) :
          (i < j /\ Writes(log)[i].slot = Writes(log)[j].slot) =>
             \/ Writes(log)[i].off + Writes(log)[i].len <= Writes(log)[j].off
             \/ Writes(log)[j].off + Writes(log)[j].len <= Writes(log)[i].off

(* C20. Monotone writes: starting from slots whose trailers are either     *)
(* fully erased or well formed (magic GOOD, each flag erased or SET),      *)
(* under any sequence of boot_set_pending_multi, boot_set_confirmed_multi  *)
(* and boot_swap_type_multi calls, possibly interrupted by resets or       *)
(* failed writes, the core never programs a trailer byte that is not in    *)
(* the erased state: each field is written at most once between two        *)
(* erases of its slot.  Stated as an induction: from trailers of that kind *)
(* every operation programs erased bytes only and leaves trailers of that  *)
(* kind.                                                                   *)
C20_MonotoneWrites ==
    [][ ((Writes(last'.log) # <<>> \/ flash' # flash)
            /\ SoundTrailers(flash)) =>
          /\ MonotoneWrites(flash, last'.log)
          /\ SoundTrailers(flash')
      ]_vars

\* Over a secondary slot made pending for good, boot_set_confirmed_multi
\* has written the erased image_ok of a well formed primary trailer.
C20_Witness ==
    /\ SoundTrailers(last.pre)
    /\ SetConfirmedReturned /\ last.rc = 0
    /\ Len(Landed(last.log)) = 1
    /\ ImageOkOf(last.pre, "primary") = BOOT_FLAG_UNSET
    /\ ImageOkOf(flash, "primary") = BOOT_FLAG_SET
    /\ MagicOf(flash, "secondary") = BOOT_MAGIC_GOOD
    /\ ImageOkOf(flash, "secondary") = BOOT_FLAG_SET

----------------------------------------------------------------------------
(* Frame: what each operation leaves alone.                                *)

\* No program or erase of the log is on the slot.
Untouched(log, slot) ==
    \A i \in 1..Len(log) :
       log[i].call \in {"write", "erase"} => log[i].slot # slot

\* No program of the log covers the byte at off of the slot.
NotProgrammed(log, slot, off) ==
    \A i \in 1..Len(Writes(log)) :
       Writes(log)[i].slot = slot =>
          \/ off < Writes(log)[i].off
          \/ off >= Writes(log)[i].off + Writes(log)[i].len

\* boot_read_swap_state_by_id on the flash as it is now, under every outcome
\* of its driver calls, programs and erases nothing and leaves the flash as
\* it found it.
ByIdReadsOnly ==
    \A slot \in Slots :
       \A fault \in PlansFor(boot_read_swap_state_by_id(
                                NewCtx(flash, NoFault), slot, ZeroState).ctx.log) :
          /\ boot_read_swap_state_by_id(
                NewCtx(flash, fault), slot, ZeroState).ctx.flash = flash
          /\ \A s \in Slots :
                Untouched(boot_read_swap_state_by_id(
                             NewCtx(flash, fault), slot, ZeroState).ctx.log, s)

(* C21. Frame: boot_swap_type_multi and boot_read_swap_state_by_id perform *)
(* no flash write or erase on either slot; boot_set_pending_multi never    *)
(* writes or erases the primary slot and never writes the secondary        *)
(* copy_done field; boot_set_confirmed_multi never writes or erases the    *)
(* secondary slot and changes nothing in the primary slot other than the   *)
(* image_ok field (magic, copy_done and swap_info read the same before and *)
(* after).                                                                 *)
C21_Frame ==
    /\ last.op = "swap_type" =>
          /\ \A slot \in Slots : Untouched(last.log, slot)
          /\ flash = last.pre
    /\ ByIdReadsOnly
    /\ last.op = "set_pending" =>
          /\ Untouched(last.log, "primary")
          /\ flash["primary"] = last.pre["primary"]
          /\ NotProgrammed(last.log, "secondary",
                           boot_copy_done_off("secondary"))
          /\ Erases(last.log) = <<>> =>
                flash["secondary"][boot_copy_done_off("secondary")]
                   = last.pre["secondary"][boot_copy_done_off("secondary")]
    /\ last.op = "set_confirmed" =>
          /\ Untouched(last.log, "secondary")
          /\ flash["secondary"] = last.pre["secondary"]
          /\ Erases(last.log) = <<>>
          /\ \A a \in TrailerOffs :
                (a < boot_image_ok_off("primary")
                   \/ a >= boot_image_ok_off("primary") + BOOT_MAX_ALIGN)
                  => flash["primary"][a] = last.pre["primary"][a]
          /\ MagicOf(flash, "primary") = MagicOf(last.pre, "primary")
          /\ CopyDoneOf(flash, "primary") = CopyDoneOf(last.pre, "primary")
          /\ flash["primary"][boot_swap_info_off("primary")]
                = last.pre["primary"][boot_swap_info_off("primary")]

\* A permanent request has written its three fields in the secondary slot
\* around a copy_done that is still erased, over a primary slot swapped in
\* and not confirmed.
C21_Witness ==
    /\ SetPendingReturned /\ last.rc = 0 /\ last.permanent # 0
    /\ Len(Landed(last.log)) = 3
    /\ flash["secondary"] # last.pre["secondary"]
    /\ CopyDoneOf(flash, "secondary") = BOOT_FLAG_UNSET
    /\ MagicOf(flash, "primary") = BOOT_MAGIC_GOOD
    /\ CopyDoneOf(flash, "primary") = BOOT_FLAG_SET

====
